---- MODULE Spec2Model ----
(***************************************************************************)
(* bdrck::process -- launching a child with redirected standard streams,   *)
(* the error channel between fork and exec, wait() and the destructor      *)
(* (src/src/bdrck/process/Process.cpp, Pipe.cpp), run against a small      *)
(* POSIX kernel: per-process descriptor tables with lowest-free            *)
(* allocation, pipes with bounded buffers, blocking read/write, SIGPIPE,   *)
(* zombies and waitpid.  The program the child execs is bdrck-test-echo    *)
(* (src/src/test-echo/bdrck-test-echo.cpp).                                *)
(*                                                                         *)
(* bdrck::timer -- TimerService and TimerToken                             *)
(* (src/src/bdrck/timer/TimerService.cpp): the caller's thread against the *)
(* timer thread that runs the expiry handlers (SpecTimer).                 *)
(*                                                                         *)
(* A text (an error message, the bytes on a pipe) is a sequence of tokens. *)
(* System calls on valid arguments succeed; they fail with the errno the   *)
(* kernel state dictates (EBADF, ECHILD, EPIPE, ENOENT, EMFILE), and fork  *)
(* may fail with EAGAIN.  A write to a pipe without a reader raises        *)
(* SIGPIPE, which kills the writer or, when the signal is ignored (a       *)
(* disposition fork and exec pass on to the child), fails with EPIPE.      *)
(* Signals that interrupt a sleeping system call (EINTR) and a SIGCHLD     *)
(* handler that reaps the child are the environment of SpecSignals.        *)
(***************************************************************************)
EXTENDS Integers, Sequences, FiniteSets, TLC

\* ---------------------------------------------------------------- bounds
MaxFd == 10          \* descriptor numbers are 0..MaxFd
PipeCapacity == 1    \* tokens a pipe buffers before a writer blocks
MaxLen == 2          \* longest text the caller writes to the child's stdin
MaxWaits == 2        \* wait() calls the caller makes before destruction
MaxIntr == 1         \* signals that interrupt a sleeping system call
MaxTime == 2         \* the steady clock runs from 0 to MaxTime
MaxRuns == 2         \* executions of one callback
MaxArgs == 2         \* arguments handed to ProcessArguments

\* ------------------------------------------------------ program constants
INVALID_PIPE_VALUE == -1
INVALID_PROCESS_HANDLE_VALUE == -1
READ_BUFFER_SIZE == 256
EXIT_SUCCESS == 0
EXIT_FAILURE == 1
TEST_EXIT_CODE == 137
SIGPIPE == 13

FD == 0 .. MaxFd
StdStream == {"STDIN", "STDOUT", "STDERR"}
PipeSide == {"READ", "WRITE"}
PipeNames == StdStream \cup {"error"}

\* What a descriptor refers to: nothing, the terminal the parent was
\* started on, or one end of a pipe.
NoFile == <<"none", "none">>
Tty == <<"tty", "tty">>
End(p, side) == <<p, side>>
PipeEnds == {End(p, s) : p \in PipeNames, s \in PipeSide}
NoTable == [f \in FD |-> NoFile]

\* The child's pid as fork returns it in the parent.
ChildPid == 4242

\* Exit codes given to bdrck-test-echo with -e.
ExitCodes == {0, TEST_EXIT_CODE, 256 + TEST_EXIT_CODE}

\* The bytes the caller may write: a printing character and a blank.
Bytes == {"a", " "}
RECURSIVE StringsUpTo(_)
StringsUpTo(n) ==
    IF n = 0 THEN {<<>>}
    ELSE LET shorter == StringsUpTo(n - 1)
         IN shorter \cup {Append(s, b) : s \in {t \in shorter : Len(t) = n - 1}, b \in Bytes}
Strings == StringsUpTo(MaxLen)

\* Paths handed to the constructor: the echo helper, and a path that names
\* no executable.
TEST_ECHO_BINARY == "bdrck-test-echo"
Paths == {TEST_ECHO_BINARY, "nonexistent"}
isExecutable(p) == p = TEST_ECHO_BINARY

VARIABLES
    pfd,        \* kernel: the parent's descriptor table
    pcloexec,   \* kernel: parent descriptors flagged close-on-exec
    cfd,        \* kernel: the child's descriptor table
    ccloexec,   \* kernel: child descriptors flagged close-on-exec
    buf,        \* kernel: the bytes buffered in each pipe
    cstatus,    \* kernel: the wait status of the terminated child
    ppc,        \* where the parent is
    cpc,        \* where the child is
    args,       \* Process::args: [path, arguments]
    errorPipe,  \* launchProcess: errorPipe (both processes hold this copy)
    pipes,      \* Process::pipes in the parent
    childPipes, \* the child's copy of pipes, taken at fork
    pid,        \* launchProcess: what fork returned in the parent
    child,      \* Process::child->handle
    error,      \* launchProcess: the text read from the error channel
    thrown,     \* the exception that left the last facade call (<<>>: none)
    cmsg,       \* child: what() of the exception caught after fork
    exitArg,    \* child: the argument of _exit / the return value of main
    echo,       \* bdrck-test-echo: exitCode, input, and what is left to print
    io,         \* caller: the pipe::write / pipe::readAll in progress
    rd,         \* caller: what readAll returned per stream
    waitLog,    \* one record per wait() call the caller made
    hist,       \* counters of system calls: reaps, closes, failures, signals
    now,        \* timer: the steady clock
    service,    \* timer: the io_service of the TimerService singleton
    token,      \* timer: the TimerToken the caller got (owner of the handle)
    job,        \* timer: function, interval and repeat of the scheduled callback
    timer,      \* timer: the pending async_wait, [armed, expiry]
    hlock,      \* timer: the handler holds `lock`, a shared_ptr to the handle
    tpc,        \* timer: where the timer thread is
    upc,        \* timer: where the caller's thread is
    timesExecuted,  \* timer: executions of function() that have started
    lateStart,  \* timer: an execution started after the token was destroyed
    pa,         \* arguments: the ProcessArguments object
    apc,        \* arguments: "init", "built" (constructed) or "execed"
    seen        \* arguments: what execvp was given, as the kernel reads it

pvars == <<pfd, pcloexec, cfd, ccloexec, buf, cstatus, ppc, cpc, args, errorPipe,
           pipes, childPipes, pid, child, error, thrown, cmsg, exitArg, echo,
           io, rd, waitLog, hist>>

tvars == <<now, service, token, job, timer, hlock, tpc, upc, timesExecuted,
           lateStart>>

avars == <<pa, apc, seen>>

vars == <<pvars, tvars, avars>>

\* ------------------------------------------------------------ the kernel

\* errno -> message, as std::system_category().message gives it.
getErrnoError(errno) ==
    CASE errno = "ENOENT" -> "No such file or directory"
      [] errno = "EBADF" -> "Bad file descriptor"
      [] errno = "EPIPE" -> "Broken pipe"
      [] errno = "ECHILD" -> "No child processes"
      [] errno = "EMFILE" -> "Too many open files"
      [] errno = "EAGAIN" -> "Resource temporarily unavailable"
      [] errno = "EINTR" -> "Interrupted system call"
      [] OTHER -> "Unknown error."

\* strsignal, or the fallback text.
strsignal(sig) ==
    IF sig = SIGPIPE THEN "Broken pipe" ELSE "Unrecognized signal."

\* The lowest descriptor number not in use (how open, pipe and dup allocate).
LowestFree(tbl) ==
    CHOOSE f \in FD : tbl[f] = NoFile /\ \A g \in FD : g < f => tbl[g] # NoFile

\* pipe2(pipefd, flags) for pipe p: two descriptors, read end first.
\* [ok, read, write, tbl, cx] -- on failure (EMFILE) nothing changes.
pipe2(tbl, cx, p, cloexec) ==
    IF Cardinality({f \in FD : tbl[f] = NoFile}) < 2
    THEN [ok |-> FALSE, read |-> INVALID_PIPE_VALUE, write |-> INVALID_PIPE_VALUE,
          tbl |-> tbl, cx |-> cx]
    ELSE LET r == LowestFree(tbl)
             t1 == [tbl EXCEPT ![r] = End(p, "READ")]
             w == LowestFree(t1)
             t2 == [t1 EXCEPT ![w] = End(p, "WRITE")]
         IN [ok |-> TRUE, read |-> r, write |-> w, tbl |-> t2,
             cx |-> IF cloexec THEN cx \cup {r, w} ELSE cx \ {r, w}]

\* ::close(fd): [ok, tbl]; EBADF when fd is not an open descriptor.
sysClose(tbl, fd) ==
    IF fd \in FD /\ tbl[fd] # NoFile
    THEN [ok |-> TRUE, tbl |-> [tbl EXCEPT ![fd] = NoFile]]
    ELSE [ok |-> FALSE, tbl |-> tbl]

\* dup2(src, dst): [ok, tbl, cx]; the duplicate never has close-on-exec.
dup2(tbl, cx, src, dst) ==
    IF ~(src \in FD /\ dst \in FD) \/ tbl[src] = NoFile
    THEN [ok |-> FALSE, tbl |-> tbl, cx |-> cx]
    ELSE IF src = dst THEN [ok |-> TRUE, tbl |-> tbl, cx |-> cx]
    ELSE [ok |-> TRUE, tbl |-> [tbl EXCEPT ![dst] = tbl[src]], cx |-> cx \ {dst}]

\* Is some descriptor of either process open on this end of pipe p?
Holds(tbl, e) == \E f \in FD : tbl[f] = e
HasReader(p) == Holds(pfd, End(p, "READ")) \/ Holds(cfd, End(p, "READ"))
HasWriter(p) == Holds(pfd, End(p, "WRITE")) \/ Holds(cfd, End(p, "WRITE"))

\* What a descriptor of a table is open on, for read or for write.
ReadsFrom(tbl, fd) ==
    IF fd \in FD /\ tbl[fd] \in PipeEnds /\ tbl[fd][2] = "READ" THEN tbl[fd][1] ELSE "none"
WritesTo(tbl, fd) ==
    IF fd \in FD /\ tbl[fd] \in PipeEnds /\ tbl[fd][2] = "WRITE" THEN tbl[fd][1] ELSE "none"

Min(a, b) == IF a < b THEN a ELSE b
Room(p) == PipeCapacity - Len(buf[p])
Take(s, n) == SubSeq(s, 1, n)
Drop(s, n) == SubSeq(s, n + 1, Len(s))

\* The wait status the kernel keeps for a terminated child, and the macros
\* of <sys/wait.h> that take it apart.
W_EXITCODE(code) == (code % 256) * 256
W_SIGNALED(sig) == sig
WIFEXITED(status) == status % 128 = 0
WEXITSTATUS(status) == (status \div 256) % 256
WIFSIGNALED(status) == status % 128 # 0 /\ status % 128 # 127
WTERMSIG(status) == status % 128


\* ------------------------------------------------- Pipe.cpp, PipeCast.cpp

\* Pipe::Pipe / PipeImpl::PipeImpl: the two descriptors pipe2 returned.
Pipe(r, w) == [read |-> r, write |-> w]

\* Pipe::get
get(pipe, side) == IF side = "READ" THEN pipe.read ELSE pipe.write

\* Pipe::set
set(pipe, side, descriptor) ==
    IF side = "READ" THEN [pipe EXCEPT !.read = descriptor]
    ELSE [pipe EXCEPT !.write = descriptor]

\* getStreamPipe with the descriptors of STDOUT and STDERR exchanged.
getStreamPipe_Swapped(stream) ==
    CASE stream = "STDIN" -> 0
      [] stream = "STDOUT" -> 2
      [] stream = "STDERR" -> 1
      [] OTHER -> INVALID_PIPE_VALUE

\* pipe::getStreamPipe
getStreamPipe(stream) ==
    CASE stream = "STDIN" -> 0
      [] stream = "STDOUT" -> 1
      [] stream = "STDERR" -> 2
      [] OTHER -> INVALID_PIPE_VALUE

\* pipe::close(PipeDescriptor): the sentinel is a no-op, anything else goes
\* to ::close and a failure throws.  [ok, tbl]
close(tbl, descriptor) ==
    IF descriptor = INVALID_PIPE_VALUE THEN [ok |-> TRUE, tbl |-> tbl]
    ELSE sysClose(tbl, descriptor)

\* A run of pipe::close calls in program order; the first one that throws
\* ends the run.  [ok, tbl]
RECURSIVE closeEach(_, _)
closeEach(tbl, descriptors) ==
    IF descriptors = <<>> THEN [ok |-> TRUE, tbl |-> tbl]
    ELSE LET first == close(tbl, Head(descriptors))
         IN IF first.ok THEN closeEach(first.tbl, Tail(descriptors))
            ELSE [ok |-> FALSE, tbl |-> first.tbl]

\* The side of a stream's pipe the parent keeps.
ParentSide(stream) == IF stream = "STDIN" THEN "WRITE" ELSE "READ"

\* closeParentSide that forgets the read end of STDERR.
closeParentSide_SkipsStderr(ps, tbl) ==
    closeEach(tbl, <<get(ps["STDIN"], "WRITE"), get(ps["STDOUT"], "READ")>>)

\* closeParentSide that forgets the read end of STDOUT.
closeParentSide_SkipsStdout(ps, tbl) ==
    closeEach(tbl, <<get(ps["STDIN"], "WRITE"), get(ps["STDERR"], "READ")>>)

\* closeParentSide that forgets the write end of STDIN.
closeParentSide_SkipsStdin(ps, tbl) ==
    closeEach(tbl, <<get(ps["STDOUT"], "READ"), get(ps["STDERR"], "READ")>>)

\* pipe::closeParentSide
closeParentSide(ps, tbl) ==
    closeEach(tbl, <<get(ps["STDIN"], "WRITE"), get(ps["STDOUT"], "READ"),
                     get(ps["STDERR"], "READ")>>)

\* closeChildSide that forgets the write end of STDERR.
closeChildSide_SkipsStderr(ps, tbl) ==
    closeEach(tbl, <<get(ps["STDIN"], "READ"), get(ps["STDOUT"], "WRITE")>>)

\* closeChildSide that forgets the read end of STDIN.
closeChildSide_SkipsStdin(ps, tbl) ==
    closeEach(tbl, <<get(ps["STDOUT"], "WRITE"), get(ps["STDERR"], "WRITE")>>)

\* pipe::closeChildSide
closeChildSide(ps, tbl) ==
    closeEach(tbl, <<get(ps["STDIN"], "READ"), get(ps["STDOUT"], "WRITE"),
                     get(ps["STDERR"], "WRITE")>>)

\* pipe::openPipes: STDIN, STDOUT, STDERR in this order; a Pipe() that throws
\* leaves the earlier entries in the map and their descriptors open.
\* [ok, pipes, tbl, cx]
RECURSIVE openEach(_, _, _, _)
openEach(ps, tbl, cx, streams) ==
    IF streams = <<>> THEN [ok |-> TRUE, pipes |-> ps, tbl |-> tbl, cx |-> cx]
    ELSE LET s == Head(streams)
             made == pipe2(tbl, cx, s, FALSE)
         IN IF ~made.ok THEN [ok |-> FALSE, pipes |-> ps, tbl |-> tbl, cx |-> cx]
            ELSE openEach([t \in DOMAIN ps \cup {s} |->
                              IF t = s /\ s \notin DOMAIN ps
                              THEN Pipe(made.read, made.write) ELSE ps[t]],
                          made.tbl, made.cx, Tail(streams))
openPipes(ps, tbl, cx) == openEach(ps, tbl, cx, <<"STDIN", "STDOUT", "STDERR">>)

\* ------------------------------------------------------------ Process.cpp

\* replaceStdStream: dup2 of the child's side onto 0, 1 or 2.  [ok, tbl, cx]
replaceStdStream(ps, tbl, cx, stream) ==
    LET side == IF stream = "STDIN" THEN "READ" ELSE "WRITE"
        src == get(ps[stream], side)
        dst == getStreamPipe(stream)
    IN dup2(tbl, cx, src, dst)

\* getPipe that hands out the child's side of each pipe.
getPipe_ChildSide(ps, stream) ==
    CASE stream = "STDIN" -> get(ps[stream], "READ")
      [] stream \in {"STDOUT", "STDERR"} -> get(ps[stream], "WRITE")
      [] OTHER -> INVALID_PIPE_VALUE

\* Process::getPipe
getPipe(ps, stream) ==
    CASE stream = "STDIN" -> get(ps[stream], "WRITE")
      [] stream \in {"STDOUT", "STDERR"} -> get(ps[stream], "READ")
      [] OTHER -> INVALID_PIPE_VALUE

\* std::to_string of an exit code, and std::stoi of such a text.
to_string(k) == ToString(k)
stoi(text) == CHOOSE k \in ExitCodes : ToString(k) = text

\* -------------------------------------------------------------- counters

\* The parent's close calls: how often each pipe end was closed, and how
\* many ::close calls failed.
NoteCloses(before, res) ==
    [hist EXCEPT
        !.closes = [e \in PipeEnds |->
            @[e] + Cardinality({f \in FD : before[f] = e /\ res.tbl[f] = NoFile})],
        !.closeFailed = @ + (IF res.ok THEN 0 ELSE 1)]

\* ------------------------------------------------------------------ Init

NoEcho == [exitCode |-> 0, raw |-> <<>>, input |-> <<>>, out |-> <<>>, err |-> <<>>]
NoIo == [op |-> "none", stream |-> "none", data |-> <<>>, n |-> 0]
NoJob == [kind |-> "none", interval |-> 0, repeat |-> FALSE]
NoTimer == [armed |-> FALSE, expiry |-> 0]
NoArgs == [path |-> <<>>, arguments |-> <<>>, argvContainer |-> <<>>,
           argvPointers |-> <<>>, file |-> <<>>, argv |-> <<>>]
NoSeen == [file |-> <<>>, argv |-> <<>>]

\* The parent starts with each of 0, 1, 2 either open on its terminal or
\* closed, and with no other descriptor.
Init ==
    /\ pfd \in {t \in [FD -> {NoFile, Tty}] : \A f \in FD : f > 2 => t[f] = NoFile}
    /\ pcloexec = {}
    /\ cfd = NoTable
    /\ ccloexec = {}
    /\ buf = [p \in PipeNames |-> <<>>]
    /\ cstatus = 0
    /\ ppc = "init"
    /\ cpc = "none"
    /\ args = [path |-> "", arguments |-> <<>>]
    /\ errorPipe = Pipe(INVALID_PIPE_VALUE, INVALID_PIPE_VALUE)
    /\ pipes = [s \in {} |-> Pipe(INVALID_PIPE_VALUE, INVALID_PIPE_VALUE)]
    /\ childPipes = [s \in {} |-> Pipe(INVALID_PIPE_VALUE, INVALID_PIPE_VALUE)]
    /\ pid = INVALID_PROCESS_HANDLE_VALUE
    /\ child = INVALID_PROCESS_HANDLE_VALUE
    /\ error = <<>>
    /\ thrown = <<>>
    /\ cmsg = ""
    /\ exitArg = 0
    /\ echo = NoEcho
    /\ io = NoIo
    /\ rd = [s \in {"STDOUT", "STDERR"} |-> [done |-> FALSE, text |-> <<>>]]
    /\ waitLog = <<>>
    /\ hist = [reaps |-> 0, waitFailed |-> 0, closeFailed |-> 0,
               closes |-> [e \in PipeEnds |-> 0],
               reclosed |-> FALSE, wrote |-> "no", S |-> <<>>,
               execed |-> FALSE, term |-> "none", swallowed |-> <<>>,
               forkFailed |-> FALSE, intr |-> 0]
    /\ now = 0
    /\ service = "none"
    /\ token = "none"
    /\ job = NoJob
    /\ timer = NoTimer
    /\ hlock = FALSE
    /\ tpc = "none"
    /\ upc = "init"
    /\ timesExecuted = 0
    /\ lateStart = FALSE
    /\ pa = NoArgs
    /\ apc = "init"
    /\ seen = NoSeen

\* ------------------------------------------- Process::Process, the parent

\* Process::Process up to the fork: args, child = invalid, then in
\* launchProcess errorPipe(O_CLOEXEC) and openPipes(pipes).
LaunchOpen ==
    /\ ppc = "init"
    /\ \E p \in Paths, k \in ExitCodes :
         LET ep == pipe2(pfd, pcloexec, "error", TRUE)
             op == openPipes(pipes, ep.tbl, ep.cx)
         IN /\ args' = [path |-> p, arguments |-> <<"-1", "-2", "-e", to_string(k)>>]
            /\ child' = INVALID_PROCESS_HANDLE_VALUE
            /\ IF ~ep.ok
               THEN /\ thrown' = <<getErrnoError("EMFILE")>>
                    /\ ppc' = "failed"
                    /\ UNCHANGED <<pfd, pcloexec, errorPipe, pipes>>
               ELSE /\ errorPipe' = Pipe(ep.read, ep.write)
                    /\ pfd' = op.tbl
                    /\ pcloexec' = op.cx
                    /\ pipes' = op.pipes
                    /\ IF op.ok THEN ppc' = "l_fork" /\ UNCHANGED thrown
                       ELSE ppc' = "failed" /\ thrown' = <<getErrnoError("EMFILE")>>
    /\ UNCHANGED <<cfd, ccloexec, buf, cstatus, cpc, childPipes, pid, error, cmsg,
                   exitArg, echo, io, rd, waitLog, hist>>
    /\ UNCHANGED <<tvars, avars>>

\* fork(): the child gets a copy of the descriptor table and of the memory;
\* or fork returns -1 (EAGAIN) and launchProcess throws the errno error.
LaunchFork ==
    /\ ppc = "l_fork"
    /\ \/ /\ pid' = ChildPid
          /\ cfd' = pfd
          /\ ccloexec' = pcloexec
          /\ childPipes' = pipes
          /\ cpc' = "c_closeErrorRead"
          /\ ppc' = "l_closeErrorWrite"
          /\ UNCHANGED <<thrown, hist>>
       \/ /\ pid' = INVALID_PROCESS_HANDLE_VALUE
          /\ thrown' = <<getErrnoError("EAGAIN")>>
          /\ ppc' = "failed"
          /\ hist' = [hist EXCEPT !.forkFailed = TRUE]
          /\ UNCHANGED <<cfd, ccloexec, childPipes, cpc>>
    /\ UNCHANGED <<pfd, pcloexec, buf, cstatus, args, errorPipe, pipes, child, error,
                   cmsg, exitArg, echo, io, rd, waitLog>>
    /\ UNCHANGED <<tvars, avars>>

\* A parent branch that keeps its write end of the error channel open.
parentBranchCloses_KeepsErrorWrite(ep, ps, tbl) == closeChildSide(ps, tbl)

\* The closes of the parent branch, before the readAll:
\* close(errorPipe.get(WRITE)); closeChildSide(pipes).  [ok, tbl]
parentBranchCloses(ep, ps, tbl) ==
    LET c1 == close(tbl, get(ep, "WRITE"))
    IN IF c1.ok THEN closeChildSide(ps, c1.tbl) ELSE c1

\* Parent branch: close(errorPipe, WRITE); closeChildSide(pipes).
LaunchParentClose ==
    /\ ppc = "l_closeErrorWrite"
    /\ LET c2 == parentBranchCloses(errorPipe, pipes, pfd)
       IN /\ pfd' = c2.tbl
          /\ hist' = NoteCloses(pfd, c2)
          /\ IF c2.ok THEN ppc' = "l_readAll" /\ UNCHANGED thrown
             ELSE ppc' = "failed" /\ thrown' = <<getErrnoError("EBADF")>>
    /\ UNCHANGED <<pcloexec, cfd, ccloexec, buf, cstatus, cpc, args, errorPipe, pipes,
                   childPipes, pid, child, error, cmsg, exitArg, echo, io, rd, waitLog>>
    /\ UNCHANGED <<tvars, avars>>

\* Parent branch: one turn of the loop of readAll(errorPipe, READ) -- a read
\* that returns bytes -- or the read that returns 0, followed by
\* close(errorPipe, READ) and the throw or the return of the pid, which the
\* constructor stores in *child.  The read blocks while the pipe is empty
\* and some descriptor is open on its write end.
LaunchReadAll ==
    /\ ppc = "l_readAll"
    /\ LET src == ReadsFrom(pfd, get(errorPipe, "READ"))
       IN IF src = "none"
          THEN /\ ppc' = "failed"
               /\ thrown' = <<getErrnoError("EBADF")>>
               /\ UNCHANGED <<pfd, buf, error, child, hist>>
          ELSE IF buf[src] # <<>>
          THEN LET n == Min(Len(buf[src]), READ_BUFFER_SIZE)
               IN /\ error' = error \o Take(buf[src], n)
                  /\ buf' = [buf EXCEPT ![src] = Drop(@, n)]
                  /\ UNCHANGED <<pfd, ppc, thrown, child, hist>>
          ELSE /\ ~HasWriter(src)
               /\ LET c == close(pfd, get(errorPipe, "READ"))
                  IN /\ pfd' = c.tbl
                     /\ hist' = NoteCloses(pfd, c)
                     /\ IF ~c.ok
                        THEN ppc' = "failed" /\ thrown' = <<getErrnoError("EBADF")>>
                             /\ UNCHANGED child
                        ELSE IF error # <<>>
                        THEN ppc' = "failed" /\ thrown' = error /\ UNCHANGED child
                        ELSE ppc' = "live" /\ child' = pid /\ UNCHANGED thrown
               /\ UNCHANGED <<buf, error>>
    /\ UNCHANGED <<pcloexec, cfd, ccloexec, cstatus, cpc, args, errorPipe, pipes,
                   childPipes, pid, cmsg, exitArg, echo, io, rd, waitLog>>
    /\ UNCHANGED <<tvars, avars>>

\* ------------------------------------ launchProcess, the child after fork

\* The child terminates: the kernel closes its descriptors and keeps the
\* status until the parent waits.
Terminated(status) ==
    /\ cpc' = "zombie"
    /\ cstatus' = status
    /\ cfd' = NoTable
    /\ ccloexec' = {}
    /\ echo' = NoEcho
    /\ hist' = [hist EXCEPT !.term = IF WIFEXITED(status) THEN "exited" ELSE "signaled"]

\* close(errorPipe, READ); closeParentSide(pipes).
ChildClose ==
    /\ cpc = "c_closeErrorRead"
    /\ LET c1 == close(cfd, get(errorPipe, "READ"))
           c2 == IF c1.ok THEN closeParentSide(childPipes, c1.tbl) ELSE c1
       IN /\ cfd' = c2.tbl
          /\ IF c2.ok THEN cpc' = "c_replaceSTDIN" /\ UNCHANGED cmsg
             ELSE cpc' = "c_catch" /\ cmsg' = getErrnoError("EBADF")
    /\ UNCHANGED <<pfd, pcloexec, ccloexec, buf, cstatus, ppc, args, errorPipe, pipes,
                   childPipes, pid, child, error, thrown, exitArg, echo, io, rd,
                   waitLog, hist>>
    /\ UNCHANGED <<tvars, avars>>

NextReplace(stream) ==
    CASE stream = "STDIN" -> "c_replaceSTDOUT"
      [] stream = "STDOUT" -> "c_replaceSTDERR"
      [] OTHER -> "c_exec"

\* replaceStdStream(pipes, stream) for STDIN, STDOUT, STDERR in turn.
ChildReplace(stream) ==
    /\ cpc = "c_replace" \o stream
    /\ LET d == replaceStdStream(childPipes, cfd, ccloexec, stream)
       IN /\ cfd' = d.tbl
          /\ ccloexec' = d.cx
          /\ IF d.ok THEN cpc' = NextReplace(stream) /\ UNCHANGED cmsg
             ELSE cpc' = "c_catch" /\ cmsg' = getErrnoError("EBADF")
    /\ UNCHANGED <<pfd, pcloexec, buf, cstatus, ppc, args, errorPipe, pipes,
                   childPipes, pid, child, error, thrown, exitArg, echo, io, rd,
                   waitLog, hist>>
    /\ UNCHANGED <<tvars, avars>>

\* execvp(args.file, args.argv): on success the image is replaced and the
\* close-on-exec descriptors are closed; on failure throwErrnoError.
ChildExec ==
    /\ cpc = "c_exec"
    /\ IF isExecutable(args.path)
       THEN /\ cfd' = [f \in FD |-> IF f \in ccloexec THEN NoFile ELSE cfd[f]]
            /\ ccloexec' = {}
            /\ cpc' = "e_main"
            /\ hist' = [hist EXCEPT !.execed = TRUE]
            /\ UNCHANGED cmsg
       ELSE /\ cmsg' = getErrnoError("ENOENT")
            /\ cpc' = "c_catch"
            /\ UNCHANGED <<cfd, ccloexec, hist>>
    /\ UNCHANGED <<pfd, pcloexec, buf, cstatus, ppc, args, errorPipe, pipes,
                   childPipes, pid, child, error, thrown, exitArg, echo, io, rd,
                   waitLog>>
    /\ UNCHANGED <<tvars, avars>>

\* catch: pipe::write(errorPipe.get(WRITE), message).  A write to a pipe no
\* one reads raises SIGPIPE, which kills the child or (ignored) makes the
\* write fail with EPIPE; a write that fails throws out of the handler, and
\* the exception leaves launchProcess in the child.
ChildCatch ==
    /\ cpc = "c_catch"
    /\ LET dst == WritesTo(cfd, get(errorPipe, "WRITE"))
       IN IF dst = "none"
          THEN /\ cpc' = "c_escaped"
               /\ UNCHANGED <<cfd, ccloexec, buf, cstatus, hist, echo>>
          ELSE IF ~HasReader(dst)
          THEN \/ /\ Terminated(W_SIGNALED(SIGPIPE))
                  /\ UNCHANGED buf
               \/ /\ cpc' = "c_escaped"
                  /\ UNCHANGED <<cfd, ccloexec, buf, cstatus, hist, echo>>
          ELSE /\ Room(dst) >= 1
               /\ buf' = [buf EXCEPT ![dst] = Append(@, cmsg)]
               /\ cpc' = "c_exit"
               /\ UNCHANGED <<cfd, ccloexec, cstatus, hist, echo>>
    /\ UNCHANGED <<pfd, pcloexec, ppc, args, errorPipe, pipes, childPipes, pid, child,
                   error, thrown, cmsg, exitArg, io, rd, waitLog>>
    /\ UNCHANGED <<tvars, avars>>

\* _exit(EXIT_FAILURE)
ChildExit ==
    /\ cpc = "c_exit"
    /\ exitArg' = EXIT_FAILURE
    /\ Terminated(W_EXITCODE(EXIT_FAILURE))
    /\ UNCHANGED <<pfd, pcloexec, buf, ppc, args, errorPipe, pipes, childPipes, pid,
                   child, error, thrown, cmsg, io, rd, waitLog>>
    /\ UNCHANGED <<tvars, avars>>

\* --------------------------------------------------- bdrck-test-echo.cpp

isspace(b) == b = " "

\* What std::istream_iterator<char> delivers of a run of bytes: operator>>
\* skips white space.
Extracted(bytes) == SelectSeq(bytes, LAMBDA b : ~isspace(b))

\* main: parseAndExecute takes the exit code from option -e.
EchoMain ==
    /\ cpc = "e_main"
    /\ echo' = [echo EXCEPT !.exitCode = stoi(args.arguments[4])]
    /\ cpc' = "e_read"
    /\ UNCHANGED <<pfd, pcloexec, cfd, ccloexec, buf, cstatus, ppc, args, errorPipe,
                   pipes, childPipes, pid, child, error, thrown, cmsg, exitArg, io,
                   rd, waitLog, hist>>
    /\ UNCHANGED <<tvars, avars>>

\* echoStdin: std::string input(it, end) -- one read of descriptor 0, up to
\* end-of-file; then what goes to stdout and stderr is decided by the flags
\* -1 and -2, which the launch always gives.
EchoRead ==
    /\ cpc = "e_read"
    /\ LET src == ReadsFrom(cfd, 0)
       IN IF src # "none" /\ buf[src] # <<>>
          THEN /\ echo' = [echo EXCEPT !.raw = @ \o buf[src],
                                         !.input = @ \o Extracted(buf[src])]
               /\ buf' = [buf EXCEPT ![src] = <<>>]
               /\ UNCHANGED cpc
          ELSE /\ src = "none" \/ ~HasWriter(src)
               /\ echo' = [echo EXCEPT !.out = echo.input, !.err = echo.input]
               /\ cpc' = "e_STDOUT"
               /\ UNCHANGED buf
    /\ UNCHANGED <<pfd, pcloexec, cfd, ccloexec, cstatus, ppc, args, errorPipe, pipes,
                   childPipes, pid, child, error, thrown, cmsg, exitArg, io, rd,
                   waitLog, hist>>
    /\ UNCHANGED <<tvars, avars>>

\* std::cout << input, then std::cerr << input: writes to descriptor 1, then
\* to descriptor 2.  A write blocks while the pipe is full, and raises
\* SIGPIPE when no descriptor is open on the read end; with SIGPIPE ignored
\* it fails with EPIPE, the stream goes bad and drops the rest.
EchoWrite(stream) ==
    /\ cpc = "e_" \o stream
    /\ stream \in {"STDOUT", "STDERR"}
    /\ LET left == IF stream = "STDOUT" THEN echo.out ELSE echo.err
           dst == WritesTo(cfd, getStreamPipe(stream))
           after == IF stream = "STDOUT" THEN "e_STDERR" ELSE "e_exit"
       IN IF left = <<>> \/ dst = "none"
          THEN /\ cpc' = after
               /\ UNCHANGED <<cfd, ccloexec, buf, cstatus, echo, hist>>
          ELSE IF ~HasReader(dst)
          THEN \/ /\ Terminated(W_SIGNALED(SIGPIPE))
                  /\ UNCHANGED buf
               \/ /\ cpc' = after
                  /\ echo' = IF stream = "STDOUT" THEN [echo EXCEPT !.out = <<>>]
                             ELSE [echo EXCEPT !.err = <<>>]
                  /\ UNCHANGED <<cfd, ccloexec, buf, cstatus, hist>>
          ELSE /\ Room(dst) > 0
               /\ LET n == Min(Room(dst), Len(left))
                  IN /\ buf' = [buf EXCEPT ![dst] = @ \o Take(left, n)]
                     /\ echo' = IF stream = "STDOUT"
                                THEN [echo EXCEPT !.out = Drop(left, n)]
                                ELSE [echo EXCEPT !.err = Drop(left, n)]
               /\ UNCHANGED <<cfd, ccloexec, cstatus, cpc, hist>>
    /\ UNCHANGED <<pfd, pcloexec, ppc, args, errorPipe, pipes, childPipes, pid, child,
                   error, thrown, cmsg, exitArg, io, rd, waitLog>>
    /\ UNCHANGED <<tvars, avars>>

\* return exitCode from main
EchoExit ==
    /\ cpc = "e_exit"
    /\ exitArg' = echo.exitCode
    /\ Terminated(W_EXITCODE(echo.exitCode))
    /\ UNCHANGED <<pfd, pcloexec, buf, ppc, args, errorPipe, pipes, childPipes, pid,
                   child, error, thrown, cmsg, io, rd, waitLog>>
    /\ UNCHANGED <<tvars, avars>>

\* ------------------------------------- the caller: pipe::write / readAll

\* pipe::write(child.getPipe(STDIN), S, |S|): one ::write call, which the
\* caller makes once, on a stream it has not closed.
WriteCall ==
    /\ ppc = "live"
    /\ hist.wrote = "no"
    /\ WritesTo(pfd, getPipe(pipes, "STDIN")) # "none"
    /\ \E S \in Strings :
         /\ io' = [op |-> "write", stream |-> "STDIN", data |-> S, n |-> 0]
         /\ hist' = [hist EXCEPT !.wrote = "writing", !.S = S]
         /\ ppc' = "u_write"
         /\ thrown' = <<>>
    /\ UNCHANGED <<pfd, pcloexec, cfd, ccloexec, buf, cstatus, cpc, args, errorPipe,
                   pipes, childPipes, pid, child, error, cmsg, exitArg, echo, rd,
                   waitLog>>
    /\ UNCHANGED <<tvars, avars>>

\* The ::write call in the kernel: it copies what fits and sleeps while the
\* pipe is full; with no reader left it returns what it has copied so far,
\* or fails with EPIPE (SIGPIPE ignored) or kills the caller (SIGPIPE not
\* handled) when it has copied nothing.
WriteStep ==
    /\ ppc = "u_write"
    /\ LET dst == WritesTo(pfd, getPipe(pipes, "STDIN"))
       IN IF io.data = <<>> \/ (~HasReader(dst) /\ io.n > 0)
          THEN /\ ppc' = "live"
               /\ hist' = [hist EXCEPT !.wrote = IF io.data = <<>> THEN "ok" ELSE "short"]
               /\ io' = NoIo
               /\ UNCHANGED <<pfd, pcloexec, buf, thrown>>
          ELSE IF ~HasReader(dst)
          THEN \/ /\ ppc' = "live"
                  /\ thrown' = <<getErrnoError("EPIPE")>>
                  /\ hist' = [hist EXCEPT !.wrote = "failed"]
                  /\ io' = NoIo
                  /\ UNCHANGED <<pfd, pcloexec, buf>>
               \/ /\ ppc' = "killed"
                  /\ pfd' = NoTable
                  /\ pcloexec' = {}
                  /\ hist' = [hist EXCEPT !.wrote = "failed"]
                  /\ io' = NoIo
                  /\ UNCHANGED <<buf, thrown>>
          ELSE /\ Room(dst) > 0
               /\ LET n == Min(Room(dst), Len(io.data))
                  IN /\ buf' = [buf EXCEPT ![dst] = @ \o Take(io.data, n)]
                     /\ io' = [io EXCEPT !.data = Drop(@, n), !.n = @ + n]
               /\ UNCHANGED <<pfd, pcloexec, ppc, thrown, hist>>
    /\ UNCHANGED <<cfd, ccloexec, cstatus, cpc, args, errorPipe, pipes, childPipes,
                   pid, child, error, cmsg, exitArg, echo, rd, waitLog>>
    /\ UNCHANGED <<tvars, avars>>

\* pipe::readAll(child.getPipe(stream)) begins, once per stream and on a
\* stream the caller has not closed.
ReadAllCall(stream) ==
    /\ ppc = "live"
    /\ stream \in {"STDOUT", "STDERR"}
    /\ ~rd[stream].done
    /\ ReadsFrom(pfd, getPipe(pipes, stream)) # "none"
    /\ io' = [op |-> "readAll", stream |-> stream, data |-> <<>>, n |-> 0]
    /\ ppc' = "u_readAll"
    /\ thrown' = <<>>
    /\ UNCHANGED <<pfd, pcloexec, cfd, ccloexec, buf, cstatus, cpc, args, errorPipe,
                   pipes, childPipes, pid, child, error, cmsg, exitArg, echo, rd,
                   waitLog, hist>>
    /\ UNCHANGED <<tvars, avars>>

\* One turn of readAll's loop: a ::read that returns bytes, or the ::read
\* that returns 0 at end-of-file and ends the call.
ReadAllStep ==
    /\ ppc = "u_readAll"
    /\ LET src == ReadsFrom(pfd, getPipe(pipes, io.stream))
       IN IF buf[src] # <<>>
          THEN LET n == Min(Len(buf[src]), READ_BUFFER_SIZE)
               IN /\ io' = [io EXCEPT !.data = @ \o Take(buf[src], n)]
                  /\ buf' = [buf EXCEPT ![src] = Drop(@, n)]
                  /\ UNCHANGED <<ppc, rd>>
          ELSE /\ ~HasWriter(src)
               /\ rd' = [rd EXCEPT ![io.stream] = [done |-> TRUE, text |-> io.data]]
               /\ io' = NoIo
               /\ ppc' = "live"
               /\ UNCHANGED buf
    /\ UNCHANGED <<pfd, pcloexec, cfd, ccloexec, cstatus, cpc, args, errorPipe, pipes,
                   childPipes, pid, child, error, thrown, cmsg, exitArg, echo,
                   waitLog, hist>>
    /\ UNCHANGED <<tvars, avars>>

\* ------------------------------------------------- Process: the facade

\* closePipe that closes the parent's side of every stream, and stores the
\* sentinel for the one it was called for.
closePipe_AllStreams(ps, tbl, stream) ==
    LET c == closeParentSide(ps, tbl)
    IN [ok |-> c.ok, tbl |-> c.tbl,
        pipes |-> [ps EXCEPT ![stream] =
                       set(@, ParentSide(stream), INVALID_PIPE_VALUE)]]

\* closePipe that closes the descriptor and does not store the sentinel.
closePipe_NoSentinel(ps, tbl, stream) ==
    LET c == close(tbl, get(ps[stream], IF stream = "STDIN" THEN "WRITE" ELSE "READ"))
    IN [ok |-> c.ok, tbl |-> c.tbl, pipes |-> ps]

\* Process::closePipe: close the parent's side, then store the sentinel.
\* A close that throws leaves the descriptor value in place.  [ok, pipes, tbl]
closePipe(ps, tbl, stream) ==
    LET pipe == ps[stream]
        side == IF stream = "STDIN" THEN "WRITE" ELSE "READ"
        c == close(tbl, get(pipe, side))
    IN IF c.ok
       THEN [ok |-> TRUE, tbl |-> c.tbl,
             pipes |-> [ps EXCEPT ![stream] = set(pipe, side, INVALID_PIPE_VALUE)]]
       ELSE [ok |-> FALSE, tbl |-> c.tbl, pipes |-> ps]

ClosePipe(stream) ==
    /\ ppc = "live"
    /\ LET c == closePipe(pipes, pfd, stream)
       IN /\ pfd' = c.tbl
          /\ pipes' = c.pipes
          /\ thrown' = IF c.ok THEN <<>> ELSE <<getErrnoError("EBADF")>>
          /\ hist' = [NoteCloses(pfd, c) EXCEPT
                         !.reclosed = @ \/ get(pipes[stream], ParentSide(stream))
                                              = INVALID_PIPE_VALUE]
    /\ UNCHANGED <<pcloexec, cfd, ccloexec, buf, cstatus, ppc, cpc, args, errorPipe,
                   childPipes, pid, child, error, cmsg, exitArg, echo, io, rd,
                   waitLog>>
    /\ UNCHANGED <<tvars, avars>>

\* waitpid(pid, &status, 0) can take the status of a child that has not been
\* waited for yet; anything else is ECHILD.
Waitable(handle) == handle = ChildPid /\ cpc \notin {"none", "reaped"}

\* waitOnProcessHandle that returns the raw status word of waitpid.
waitOnProcessHandle_RawStatus(handle) ==
    IF handle = INVALID_PROCESS_HANDLE_VALUE
    THEN [sys |-> "none", handle |-> handle, ret |-> EXIT_SUCCESS, thrown |-> <<>>]
    ELSE IF ~Waitable(handle)
    THEN [sys |-> "failed", handle |-> handle, ret |-> 0,
          thrown |-> <<getErrnoError("ECHILD")>>]
    ELSE IF cpc # "zombie"
    THEN [sys |-> "blocked", handle |-> handle, ret |-> 0, thrown |-> <<>>]
    ELSE IF WIFEXITED(cstatus)
    THEN [sys |-> "reaped", handle |-> INVALID_PROCESS_HANDLE_VALUE,
          ret |-> cstatus, thrown |-> <<>>]
    ELSE [sys |-> "reaped", handle |-> INVALID_PROCESS_HANDLE_VALUE, ret |-> 0,
          thrown |-> <<strsignal(WTERMSIG(cstatus))>>]

\* waitOnProcessHandle that stores the sentinel only after it has looked at
\* the status, so that the throw for a signal leaves the pid in the handle.
waitOnProcessHandle_LateSentinel(handle) ==
    IF handle = INVALID_PROCESS_HANDLE_VALUE
    THEN [sys |-> "none", handle |-> handle, ret |-> EXIT_SUCCESS, thrown |-> <<>>]
    ELSE IF ~Waitable(handle)
    THEN [sys |-> "failed", handle |-> handle, ret |-> 0,
          thrown |-> <<getErrnoError("ECHILD")>>]
    ELSE IF cpc # "zombie"
    THEN [sys |-> "blocked", handle |-> handle, ret |-> 0, thrown |-> <<>>]
    ELSE IF WIFEXITED(cstatus)
    THEN [sys |-> "reaped", handle |-> INVALID_PROCESS_HANDLE_VALUE,
          ret |-> WEXITSTATUS(cstatus), thrown |-> <<>>]
    ELSE [sys |-> "reaped", handle |-> handle, ret |-> 0,
          thrown |-> <<strsignal(WTERMSIG(cstatus))>>]

\* waitOnProcessHandle without the WIFSIGNALED branch: a child killed by a
\* signal falls through to return EXIT_FAILURE.
waitOnProcessHandle_NoSignalError(handle) ==
    IF handle = INVALID_PROCESS_HANDLE_VALUE
    THEN [sys |-> "none", handle |-> handle, ret |-> EXIT_SUCCESS, thrown |-> <<>>]
    ELSE IF ~Waitable(handle)
    THEN [sys |-> "failed", handle |-> handle, ret |-> 0,
          thrown |-> <<getErrnoError("ECHILD")>>]
    ELSE IF cpc # "zombie"
    THEN [sys |-> "blocked", handle |-> handle, ret |-> 0, thrown |-> <<>>]
    ELSE IF WIFEXITED(cstatus)
    THEN [sys |-> "reaped", handle |-> INVALID_PROCESS_HANDLE_VALUE,
          ret |-> WEXITSTATUS(cstatus), thrown |-> <<>>]
    ELSE [sys |-> "reaped", handle |-> INVALID_PROCESS_HANDLE_VALUE,
          ret |-> EXIT_FAILURE, thrown |-> <<>>]

\* waitOnProcessHandle.  sys tells what the call did in the kernel: "none"
\* (no system call), "blocked" (waitpid sleeps: the child still runs),
\* "reaped" (waitpid took the status) or "failed" (waitpid failed).
\* [sys, handle, ret, thrown]
waitOnProcessHandle(handle) ==
    IF handle = INVALID_PROCESS_HANDLE_VALUE
    THEN [sys |-> "none", handle |-> handle, ret |-> EXIT_SUCCESS, thrown |-> <<>>]
    ELSE IF ~Waitable(handle)
    THEN [sys |-> "failed", handle |-> handle, ret |-> 0,
          thrown |-> <<getErrnoError("ECHILD")>>]
    ELSE IF cpc # "zombie"
    THEN [sys |-> "blocked", handle |-> handle, ret |-> 0, thrown |-> <<>>]
    ELSE IF WIFEXITED(cstatus)
    THEN [sys |-> "reaped", handle |-> INVALID_PROCESS_HANDLE_VALUE,
          ret |-> WEXITSTATUS(cstatus), thrown |-> <<>>]
    ELSE IF WIFSIGNALED(cstatus)
    THEN [sys |-> "reaped", handle |-> INVALID_PROCESS_HANDLE_VALUE, ret |-> 0,
          thrown |-> <<strsignal(WTERMSIG(cstatus))>>]
    ELSE [sys |-> "reaped", handle |-> INVALID_PROCESS_HANDLE_VALUE,
          ret |-> EXIT_FAILURE, thrown |-> <<>>]

\* What a finished waitOnProcessHandle leaves behind in the handle, the
\* kernel and the counters.
Waited(w) ==
    /\ child' = w.handle
    /\ cpc' = IF w.sys = "reaped" THEN "reaped" ELSE cpc
    /\ hist' = [hist EXCEPT !.reaps = @ + (IF w.sys = "reaped" THEN 1 ELSE 0),
                            !.waitFailed = @ + (IF w.sys = "failed" THEN 1 ELSE 0)]

\* Process::wait is called.
WaitCall ==
    /\ ppc = "live"
    /\ Len(waitLog) < MaxWaits
    /\ LET w == waitOnProcessHandle(child)
       IN IF w.sys = "blocked"
          THEN /\ ppc' = "u_wait"
               /\ UNCHANGED <<child, cpc, hist, waitLog, thrown>>
          ELSE /\ Waited(w)
               /\ waitLog' = Append(waitLog, [sys |-> w.sys, ret |-> w.ret,
                                               thrown |-> w.thrown, slept |-> FALSE,
                                               eintr |-> 0])
               /\ thrown' = w.thrown
               /\ UNCHANGED ppc
    /\ UNCHANGED <<pfd, pcloexec, cfd, ccloexec, buf, cstatus, args, errorPipe, pipes,
                   childPipes, pid, error, cmsg, exitArg, echo, io, rd>>
    /\ UNCHANGED <<tvars, avars>>

\* Process::wait returns, once the child has terminated.  io.n is the
\* number of times the loop has called waitpid again after EINTR.
WaitReturn ==
    /\ ppc = "u_wait"
    /\ LET w == waitOnProcessHandle(child)
       IN /\ w.sys # "blocked"
          /\ Waited(w)
          /\ waitLog' = Append(waitLog, [sys |-> w.sys, ret |-> w.ret,
                                          thrown |-> w.thrown, slept |-> TRUE,
                                          eintr |-> io.n])
          /\ thrown' = w.thrown
          /\ io' = NoIo
          /\ ppc' = "live"
    /\ UNCHANGED <<pfd, pcloexec, cfd, ccloexec, buf, cstatus, args, errorPipe, pipes,
                   childPipes, pid, error, cmsg, exitArg, echo, rd>>
    /\ UNCHANGED <<tvars, avars>>

\* A destructor without the catch: the exception leaves it.
destructorRethrow(exception) == exception

\* Process::~Process: catch(...) {} -- what leaves the destructor of an
\* exception raised inside it.
destructorCatch(exception) == <<>>

\* Process::~Process: closeParentSide(pipes); wait().  An exception of
\* closeParentSide skips the wait.
Destroy ==
    /\ ppc = "live"
    /\ LET c == closeParentSide(pipes, pfd)
           w == waitOnProcessHandle(child)
       IN /\ pfd' = c.tbl
          /\ IF ~c.ok
             THEN /\ ppc' = "destroyed"
                  /\ thrown' = destructorCatch(<<getErrnoError("EBADF")>>)
                  /\ hist' = [NoteCloses(pfd, c) EXCEPT
                                 !.swallowed = <<getErrnoError("EBADF")>>]
                  /\ UNCHANGED <<child, cpc>>
             ELSE IF w.sys = "blocked"
             THEN /\ ppc' = "d_wait"
                  /\ hist' = NoteCloses(pfd, c)
                  /\ UNCHANGED <<child, cpc, thrown>>
             ELSE /\ ppc' = "destroyed"
                  /\ thrown' = destructorCatch(w.thrown)
                  /\ child' = w.handle
                  /\ cpc' = IF w.sys = "reaped" THEN "reaped" ELSE cpc
                  /\ hist' = [NoteCloses(pfd, c) EXCEPT
                                 !.reaps = @ + (IF w.sys = "reaped" THEN 1 ELSE 0),
                                 !.waitFailed = @ + (IF w.sys = "failed" THEN 1 ELSE 0),
                                 !.swallowed = w.thrown]
    /\ UNCHANGED <<pcloexec, cfd, ccloexec, buf, cstatus, args, errorPipe, pipes,
                   childPipes, pid, error, cmsg, exitArg, echo, io, rd, waitLog>>
    /\ UNCHANGED <<tvars, avars>>

\* Process::~Process: the wait() of the destructor returns.
DestroyWait ==
    /\ ppc = "d_wait"
    /\ LET w == waitOnProcessHandle(child)
       IN /\ w.sys # "blocked"
          /\ ppc' = "destroyed"
          /\ thrown' = destructorCatch(w.thrown)
          /\ child' = w.handle
          /\ cpc' = IF w.sys = "reaped" THEN "reaped" ELSE cpc
          /\ hist' = [hist EXCEPT
                         !.reaps = @ + (IF w.sys = "reaped" THEN 1 ELSE 0),
                         !.waitFailed = @ + (IF w.sys = "failed" THEN 1 ELSE 0),
                         !.swallowed = w.thrown]
          /\ io' = NoIo
    /\ UNCHANGED <<pfd, pcloexec, cfd, ccloexec, buf, cstatus, args, errorPipe, pipes,
                   childPipes, pid, error, cmsg, exitArg, echo, rd, waitLog>>
    /\ UNCHANGED <<tvars, avars>>

\* ------------------------------------------- signals in the parent process

\* The loop around waitpid: a failure is retried when errno is EINTR and
\* thrown otherwise.
waitRetry_Never(errno) == FALSE

waitRetry(errno) == errno = "EINTR"

\* A signal handler runs in the parent while waitpid sleeps: waitpid
\* returns -1 with EINTR, and the loop of waitOnProcessHandle calls it again
\* (or, were the error thrown, wait() ends with it and the destructor
\* swallows it).
WaitInterrupted ==
    /\ ppc \in {"u_wait", "d_wait"}
    /\ waitOnProcessHandle(child).sys = "blocked"
    /\ hist.intr < MaxIntr
    /\ IF waitRetry("EINTR")
       THEN /\ io' = [io EXCEPT !.op = "wait", !.n = @ + 1]
            /\ hist' = [hist EXCEPT !.intr = @ + 1]
            /\ UNCHANGED <<ppc, thrown, waitLog>>
       ELSE /\ io' = NoIo
            /\ IF ppc = "u_wait"
               THEN /\ ppc' = "live"
                    /\ thrown' = <<getErrnoError("EINTR")>>
                    /\ waitLog' = Append(waitLog,
                           [sys |-> "failed", ret |-> 0,
                            thrown |-> <<getErrnoError("EINTR")>>, slept |-> TRUE,
                            eintr |-> io.n + 1])
                    /\ hist' = [hist EXCEPT !.intr = @ + 1, !.waitFailed = @ + 1]
               ELSE /\ ppc' = "destroyed"
                    /\ thrown' = destructorCatch(<<getErrnoError("EINTR")>>)
                    /\ hist' = [hist EXCEPT !.intr = @ + 1, !.waitFailed = @ + 1,
                                            !.swallowed = <<getErrnoError("EINTR")>>]
                    /\ UNCHANGED waitLog
    /\ UNCHANGED <<pfd, pcloexec, cfd, ccloexec, buf, cstatus, cpc, args, errorPipe,
                   pipes, childPipes, pid, child, error, cmsg, exitArg, echo, rd>>
    /\ UNCHANGED <<tvars, avars>>

\* A signal handler runs in the parent while the ::read of readAll sleeps
\* on an empty pipe: ::read returns -1 with EINTR and readAll throws the
\* errno error; what it had read so far is lost.
ReadInterrupted ==
    /\ ppc = "u_readAll"
    /\ LET src == ReadsFrom(pfd, getPipe(pipes, io.stream))
       IN buf[src] = <<>> /\ HasWriter(src)
    /\ hist.intr < MaxIntr
    /\ ppc' = "live"
    /\ thrown' = <<getErrnoError("EINTR")>>
    /\ io' = NoIo
    /\ hist' = [hist EXCEPT !.intr = @ + 1]
    /\ UNCHANGED <<pfd, pcloexec, cfd, ccloexec, buf, cstatus, cpc, args, errorPipe,
                   pipes, childPipes, pid, child, error, cmsg, exitArg, echo, rd,
                   waitLog>>
    /\ UNCHANGED <<tvars, avars>>

\* The same while launchProcess drains the error channel: readAll throws,
\* and the exception leaves launchProcess and the constructor.
LaunchReadInterrupted ==
    /\ ppc = "l_readAll"
    /\ LET src == ReadsFrom(pfd, get(errorPipe, "READ"))
       IN src # "none" /\ buf[src] = <<>> /\ HasWriter(src)
    /\ hist.intr < MaxIntr
    /\ ppc' = "failed"
    /\ thrown' = <<getErrnoError("EINTR")>>
    /\ hist' = [hist EXCEPT !.intr = @ + 1]
    /\ UNCHANGED <<pfd, pcloexec, cfd, ccloexec, buf, cstatus, cpc, args, errorPipe,
                   pipes, childPipes, pid, child, error, cmsg, exitArg, echo, io, rd,
                   waitLog>>
    /\ UNCHANGED <<tvars, avars>>

\* The application's SIGCHLD handler reaps the terminated child (or SIGCHLD
\* is ignored and the kernel discards it): a later waitpid on the pid fails
\* with ECHILD.
SigchldReap ==
    /\ cpc = "zombie"
    /\ cpc' = "reaped"
    /\ UNCHANGED <<pfd, pcloexec, cfd, ccloexec, buf, cstatus, ppc, args, errorPipe,
                   pipes, childPipes, pid, child, error, thrown, cmsg, exitArg, echo,
                   io, rd, waitLog, hist>>
    /\ UNCHANGED <<tvars, avars>>

Next ==
    \/ LaunchOpen
    \/ LaunchFork
    \/ LaunchParentClose
    \/ LaunchReadAll
    \/ ChildClose
    \/ \E s \in StdStream : ChildReplace(s)
    \/ ChildExec
    \/ ChildCatch
    \/ ChildExit
    \/ EchoMain
    \/ EchoRead
    \/ \E s \in {"STDOUT", "STDERR"} : EchoWrite(s)
    \/ EchoExit
    \/ WriteCall
    \/ WriteStep
    \/ \E s \in {"STDOUT", "STDERR"} : ReadAllCall(s)
    \/ ReadAllStep
    \/ \E s \in StdStream : ClosePipe(s)
    \/ WaitCall
    \/ WaitReturn
    \/ Destroy
    \/ DestroyWait

Spec == Init /\ [][Next]_vars

\* A step of the child process, before or after exec.
ChildStep ==
    \/ ChildClose
    \/ \E s \in StdStream : ChildReplace(s)
    \/ ChildExec
    \/ ChildCatch
    \/ ChildExit
    \/ EchoMain
    \/ EchoRead
    \/ \E s \in {"STDOUT", "STDERR"} : EchoWrite(s)
    \/ EchoExit

\* The same program under the scheduler of the OS: a process that can run
\* does run.  The child takes its next step unless it sleeps in a system
\* call, and a call the parent is inside -- the launch after the fork, the
\* wait() of the destructor -- goes on unless it sleeps.  What the caller
\* does next with the Process is left to the caller.
SpecFair ==
    /\ Init
    /\ [][Next]_vars
    /\ WF_vars(ChildStep)
    /\ WF_vars(LaunchParentClose \/ LaunchReadAll)
    /\ WF_vars(DestroyWait)

\* The program in a parent process that was started with 0, 1, 2 open and
\* that handles signals: system calls are interrupted, and the child may be
\* reaped by the SIGCHLD handler.
InitSignals == Init /\ \A f \in 0 .. 2 : pfd[f] = Tty

NextSignals ==
    \/ Next
    \/ WaitInterrupted
    \/ ReadInterrupted
    \/ LaunchReadInterrupted
    \/ SigchldReap

SpecSignals == InitSignals /\ [][NextSignals]_vars


\* ------------------------------------- TimerService.cpp, TimerToken.hpp

\* Delays and intervals the caller asks for, and points of the steady clock.
Delays == 0 .. 1
Clock == 0 .. MaxTime

\* runPeriodically, up to async_wait: nothing when the io_service is gone
\* (weakService.lock() fails), else a timer that expires at now + interval.
runPeriodically(pending, svc, interval) ==
    IF svc = "none" THEN pending ELSE [armed |-> TRUE, expiry |-> now + interval]

\* TimerServiceInstance::TimerServiceInstance: the singleton, its io_service
\* with work, and the thread that runs service->run().
CreateInstance ==
    /\ upc = "init"
    /\ service' = "running"
    /\ tpc' = "run"
    /\ upc' = "ready"
    /\ UNCHANGED <<now, token, job, timer, hlock, timesExecuted, lateStart>>
    /\ UNCHANGED <<pvars, avars>>

\* TimerService::runOnceIn -> runOnceInImpl: a new token, and
\* runPeriodically(service, token.handle, function, delay, false).
runOnceIn ==
    /\ upc = "ready"
    /\ \E d \in Delays :
         /\ job' = [kind |-> "runOnceIn", interval |-> d, repeat |-> FALSE]
         /\ timer' = runPeriodically(timer, service, d)
    /\ token' = "alive"
    /\ upc' = "holding"
    /\ UNCHANGED <<now, service, hlock, tpc, timesExecuted, lateStart>>
    /\ UNCHANGED <<pvars, avars>>

\* TimerService::runOnceAt: runOnceIn(function, time - Clock::now()); the
\* delay is negative for a time in the past.
runOnceAt ==
    /\ upc = "ready"
    /\ \E t \in Clock :
         /\ job' = [kind |-> "runOnceAt", interval |-> t - now, repeat |-> FALSE]
         /\ timer' = runPeriodically(timer, service, t - now)
    /\ token' = "alive"
    /\ upc' = "holding"
    /\ UNCHANGED <<now, service, hlock, tpc, timesExecuted, lateStart>>
    /\ UNCHANGED <<pvars, avars>>

\* TimerService::runEvery -> runEveryImpl: as runOnceInImpl, with repeat.
runEvery ==
    /\ upc = "ready"
    /\ \E d \in Delays :
         /\ job' = [kind |-> "runEvery", interval |-> d, repeat |-> TRUE]
         /\ timer' = runPeriodically(timer, service, d)
    /\ token' = "alive"
    /\ upc' = "holding"
    /\ UNCHANGED <<now, service, hlock, tpc, timesExecuted, lateStart>>
    /\ UNCHANGED <<pvars, avars>>

\* TimerToken::~TimerToken in the caller's thread: the token's shared_ptr is
\* released.  The destructor does not wait for a handler that holds `lock`.
DestroyToken ==
    /\ token = "alive"
    /\ upc \in {"holding", "done"}
    /\ token' = "destroyed"
    /\ UNCHANGED <<now, service, job, timer, hlock, tpc, upc, timesExecuted, lateStart>>
    /\ UNCHANGED <<pvars, avars>>

\* TimerServiceInstance::~TimerServiceInstance -> ~TimerServiceImpl:
\* work = none; service->stop(); then thread.join() begins.
StopService ==
    /\ upc = "holding"
    /\ service' = "stopped"
    /\ upc' = "joining"
    /\ UNCHANGED <<now, token, job, timer, hlock, tpc, timesExecuted, lateStart>>
    /\ UNCHANGED <<pvars, avars>>

\* thread.join() returns once the timer thread has left run(); the
\* io_service is destroyed, and with it the handlers still pending.
Join ==
    /\ upc = "joining"
    /\ tpc = "exited"
    /\ service' = "none"
    /\ timer' = NoTimer
    /\ upc' = "done"
    /\ UNCHANGED <<now, token, job, hlock, tpc, timesExecuted, lateStart>>
    /\ UNCHANGED <<pvars, avars>>

\* The steady clock advances.
Tick ==
    /\ service = "running"
    /\ now < MaxTime
    /\ now' = now + 1
    /\ UNCHANGED <<service, token, job, timer, hlock, tpc, upc, timesExecuted, lateStart>>
    /\ UNCHANGED <<pvars, avars>>

\* service->run() in the timer thread: the timer has expired and its
\* handler is invoked, with no error.
Expire ==
    /\ tpc = "run"
    /\ service = "running"
    /\ timer.armed
    /\ now >= timer.expiry
    /\ timer' = NoTimer
    /\ tpc' = "h_lock"
    /\ UNCHANGED <<now, service, token, job, hlock, upc, timesExecuted, lateStart>>
    /\ UNCHANGED <<pvars, avars>>

\* handler: auto lock = cancellationHandle.lock(); if(!lock) return;
\* if(error) return;  The lock succeeds while the token owns the handle.
HandlerLock ==
    /\ tpc = "h_lock"
    /\ IF token = "alive"
       THEN hlock' = TRUE /\ tpc' = "h_function"
       ELSE hlock' = FALSE /\ tpc' = "run"
    /\ UNCHANGED <<now, service, token, job, timer, upc, timesExecuted, lateStart>>
    /\ UNCHANGED <<pvars, avars>>

\* handler: function() starts.  The count stops at MaxRuns.
HandlerFunction ==
    /\ tpc = "h_function"
    /\ timesExecuted' = Min(timesExecuted + 1, MaxRuns)
    /\ lateStart' = (lateStart \/ token = "destroyed")
    /\ tpc' = "h_repeat"
    /\ UNCHANGED <<now, service, token, job, timer, hlock, upc>>
    /\ UNCHANGED <<pvars, avars>>

\* handler: if(repeat) runPeriodically(...); then the handler returns and
\* `lock` is released.
HandlerReturn ==
    /\ tpc = "h_repeat"
    /\ timer' = IF job.repeat THEN runPeriodically(timer, service, job.interval)
                ELSE timer
    /\ hlock' = FALSE
    /\ tpc' = "run"
    /\ UNCHANGED <<now, service, token, job, upc, timesExecuted, lateStart>>
    /\ UNCHANGED <<pvars, avars>>

\* service->run() returns after stop(), and the thread function ends.
ThreadExit ==
    /\ tpc = "run"
    /\ service = "stopped"
    /\ tpc' = "exited"
    /\ UNCHANGED <<now, service, token, job, timer, hlock, upc, timesExecuted, lateStart>>
    /\ UNCHANGED <<pvars, avars>>

InitTimer == Init /\ \A f \in 0 .. 2 : pfd[f] = Tty

NextTimer ==
    \/ CreateInstance
    \/ runOnceIn
    \/ runOnceAt
    \/ runEvery
    \/ DestroyToken
    \/ StopService
    \/ Join
    \/ Tick
    \/ Expire
    \/ HandlerLock
    \/ HandlerFunction
    \/ HandlerReturn
    \/ ThreadExit

SpecTimer == InitTimer /\ [][NextTimer]_vars

\* ------------------------------------------------------ ProcessArguments

\* The bytes of a path or an argument: std::string holds any byte, the null
\* byte included.
NUL == "\\0"
ArgBytes == {"a", NUL}
RECURSIVE TextsUpTo(_)
TextsUpTo(n) ==
    IF n = 0 THEN {<<>>}
    ELSE LET shorter == TextsUpTo(n - 1)
         IN shorter \cup {Append(s, b) : s \in {t \in shorter : Len(t) = n - 1},
                                          b \in ArgBytes}
Texts == TextsUpTo(MaxLen)
ArgLists == UNION {[1 .. k -> Texts] : k \in 0 .. MaxArgs}

\* std::string::c_str: the bytes of the string and a terminating null byte.
c_str(s) == s \o <<NUL>>

\* The C string at a char pointer: the bytes before the first null byte.
RECURSIVE cstring(_)
cstring(c) ==
    IF c = <<>> \/ Head(c) = NUL THEN <<>> ELSE <<Head(c)>> \o cstring(Tail(c))

\* safeStrdup / ::strdup: a copy of the C string.
safeStrdup(c) == cstring(c)

\* A char * of the argument vector is the index of the string it points to
\* in argvContainer; the null pointer is 0.
nullptr == 0

\* duplicateArgvStrings: the path, then each argument, duplicated.
duplicateArgvStrings(path, arguments) ==
    <<safeStrdup(c_str(path))>>
        \o [i \in 1 .. Len(arguments) |-> safeStrdup(c_str(arguments[i]))]

\* toArgvPointers: argv.size() + 1 pointers, all null, then pointers[i] =
\* argv[i].get().
toArgvPointers(argv) ==
    [i \in 1 .. Len(argv) + 1 |-> IF i <= Len(argv) THEN i ELSE nullptr]

\* ProcessArguments::ProcessArguments: the member initialisers in order.
ProcessArguments(p, a) ==
    LET container == duplicateArgvStrings(p, a)
        pointers == toArgvPointers(container)
    IN [path |-> p, arguments |-> a, argvContainer |-> container,
        argvPointers |-> pointers, file |-> c_str(p), argv |-> pointers]

\* The strings the kernel finds in an argument vector: the C strings its
\* pointers lead to, up to the first null pointer.
RECURSIVE argvStrings(_, _)
argvStrings(container, pointers) ==
    IF pointers = <<>> \/ Head(pointers) = nullptr THEN <<>>
    ELSE <<cstring(container[Head(pointers)])>>
             \o argvStrings(container, Tail(pointers))

\* A ProcessArguments is constructed from a path and an argument list.
ArgsConstruct ==
    /\ apc = "init"
    /\ \E p \in Texts, a \in ArgLists : pa' = ProcessArguments(p, a)
    /\ apc' = "built"
    /\ UNCHANGED seen
    /\ UNCHANGED <<pvars, tvars>>

\* execvp(args.file, args.argv) reads the object.
ArgsExec ==
    /\ apc = "built"
    /\ seen' = [file |-> cstring(pa.file),
                argv |-> argvStrings(pa.argvContainer, pa.argv)]
    /\ apc' = "execed"
    /\ UNCHANGED pa
    /\ UNCHANGED <<pvars, tvars>>

InitArgs == Init /\ \A f \in 0 .. 2 : pfd[f] = Tty

NextArgs == ArgsConstruct \/ ArgsExec

SpecArgs == InitArgs /\ [][NextArgs]_vars

\* ---------------------------------------------------------------- claims

\* Construction has returned to the caller with a Process object.
Constructed == ppc \in {"live", "u_write", "u_readAll", "u_wait", "d_wait",
                        "destroyed", "killed"}

\* The Process object is alive and no destructor has started.
Alive == ppc \in {"live", "u_write", "u_readAll", "u_wait"}

\* The parent still has its terminal on descriptors 0, 1 and 2: it was
\* started with all three open.
StdOpen == \A f \in 0 .. 2 : pfd[f] = Tty

\* C1: once execvp has failed in the child because the path names no
\* executable, construction does not succeed, and when it has failed the
\* error it raised carries exactly the non-empty message of the child.
C1_LaunchFailureSurfaces ==
    (~isExecutable(args.path) /\ cmsg = getErrnoError("ENOENT")) =>
        /\ ~Constructed
        /\ ppc = "failed" => (thrown = <<cmsg>> /\ thrown # <<>>)

\* C2: a child that failed or terminated between fork and exec never goes
\* with a successfully constructed Process.
C2_SuccessMeansExec ==
    Constructed =>
        ~(\/ cpc \in {"c_catch", "c_exit", "c_escaped"}
          \/ (cpc \in {"zombie", "reaped"} /\ ~hist.execed))

\* C3: round trip -- with the echo child running (and the parent started
\* with 0, 1, 2 open), after S has been written to STDIN in full and both
\* readAll calls have returned, each of them has returned exactly S.
C3_RoundTrip ==
    (StdOpen /\ hist.execed /\ hist.wrote = "ok" /\ rd["STDOUT"].done
             /\ rd["STDERR"].done) =>
        (rd["STDOUT"].text = hist.S /\ rd["STDERR"].text = hist.S)

\* C4: exit code fidelity -- the wait() call that takes the status of a
\* child that exited normally with code K returns K mod 256, which is K
\* itself for K in 0..255, and raises nothing.
C4_ExitCodeFidelity ==
    \A i \in DOMAIN waitLog :
        (waitLog[i].sys = "reaped" /\ hist.term = "exited") =>
            /\ waitLog[i].thrown = <<>>
            /\ waitLog[i].ret = exitArg % 256
            /\ exitArg \in 0 .. 255 => waitLog[i].ret = exitArg

\* A wait() took the status of an echo child that exited with a code above
\* 255, and returned the code modulo 256.
C4_Witness ==
    \E i \in DOMAIN waitLog :
        /\ StdOpen
        /\ waitLog[i].sys = "reaped"
        /\ hist.term = "exited"
        /\ exitArg = 256 + TEST_EXIT_CODE
        /\ waitLog[i].ret = TEST_EXIT_CODE

\* C5: idempotent wait -- for an echo child that exited normally, the second
\* wait() returns what the first returned, without sleeping and without
\* raising an error.
C5_IdempotentWait ==
    (StdOpen /\ hist.execed /\ Len(waitLog) >= 2 /\ hist.term = "exited") =>
        /\ waitLog[2].ret = waitLog[1].ret
        /\ waitLog[2].thrown = waitLog[1].thrown
        /\ ~waitLog[2].slept

\* C6: the OS wait succeeds at most once per child, and no wait() call and
\* no destructor issues an OS wait on the pid after it has been reaped
\* (such a call would fail with ECHILD).
C6_NoSecondOsWait ==
    /\ hist.reaps <= 1
    /\ hist.waitFailed = 0
    /\ cpc = "reaped" => child = INVALID_PROCESS_HANDLE_VALUE

\* A Process destroyed after two wait() calls, the first of which reaped a
\* child killed by a signal and raised the signal error.
C6_Witness ==
    /\ ppc = "destroyed"
    /\ StdOpen
    /\ hist.execed
    /\ Len(waitLog) = 2
    /\ waitLog[1].sys = "reaped"
    /\ waitLog[1].thrown # <<>>
    /\ waitLog[2].sys = "none"

\* C7: after a successfully constructed Process has been destroyed, no
\* descriptor of the parent is open on any end of the error channel or of
\* the three standard pipes.
C7_NoDescriptorLeak ==
    ppc = "destroyed" => \A f \in FD : pfd[f] \notin PipeEnds

\* A Process destroyed after closePipe() calls (one of them repeated) and a
\* wait() call.
C7_Witness ==
    /\ ppc = "destroyed"
    /\ StdOpen
    /\ hist.execed
    /\ hist.reclosed
    /\ Len(waitLog) >= 1
    /\ \E s \in StdStream : get(pipes[s], ParentSide(s)) # INVALID_PIPE_VALUE

\* C8: when the destructor has returned, every parent-side end is closed
\* and the child has been reaped, exactly once.
C8_DestructorReaps ==
    ppc = "destroyed" =>
        /\ \A s \in StdStream : ~Holds(pfd, End(s, ParentSide(s)))
        /\ cpc = "reaped"
        /\ hist.reaps = 1

\* A Process destroyed with no wait() and no closePipe() before: the
\* destructor closed the three ends and reaped the child itself.
C8_Witness ==
    /\ ppc = "destroyed"
    /\ StdOpen
    /\ hist.execed
    /\ waitLog = <<>>
    /\ \A s \in StdStream : get(pipes[s], ParentSide(s)) # INVALID_PIPE_VALUE
    /\ cpc = "reaped"

\* C9: no exception leaves the destructor.
C9_DestructorNeverThrows ==
    ppc = "destroyed" => thrown = <<>>

\* A destructor whose wait() raised the signal error, which it swallowed.
C9_Witness ==
    /\ ppc = "destroyed"
    /\ StdOpen
    /\ hist.execed
    /\ hist.swallowed # <<>>
    /\ hist.term = "signaled"

\* C10: closePipe is idempotent -- each parent-side end is closed at most
\* once and no ::close is ever issued on a descriptor already closed; as
\* long as the Process is alive a parent-side end that has been closed has
\* the sentinel recorded for it, and an end with the sentinel recorded has
\* been closed exactly once and is no longer held by the parent.
C10_ClosePipeIdempotent ==
    /\ hist.closeFailed = 0
    /\ \A s \in StdStream :
         /\ hist.closes[End(s, ParentSide(s))] <= 1
         /\ (Alive /\ hist.closes[End(s, ParentSide(s))] = 1) =>
                get(pipes[s], ParentSide(s)) = INVALID_PIPE_VALUE
         /\ (Alive /\ get(pipes[s], ParentSide(s)) = INVALID_PIPE_VALUE) =>
                /\ hist.closes[End(s, ParentSide(s))] = 1
                /\ ~Holds(pfd, End(s, ParentSide(s)))

\* A Process destroyed after closePipe() was called again on a stream
\* already closed.
C10_Witness ==
    /\ ppc = "destroyed"
    /\ StdOpen
    /\ hist.execed
    /\ hist.reclosed
    /\ \E s \in StdStream : get(pipes[s], ParentSide(s)) = INVALID_PIPE_VALUE

\* C11: while the Process is alive, getPipe(stream) is the parent's end of
\* that stream's pipe -- for STDIN a descriptor open in the parent on the
\* write end of the STDIN pipe, for STDOUT and STDERR one open on the read
\* end of that pipe (or the sentinel, once closePipe has closed it) -- and
\* never the descriptor of the child's side.
C11_GetPipeParentEnd ==
    Alive =>
        \A s \in StdStream :
            LET d == getPipe(pipes, s)
                mine == IF s = "STDIN" THEN End(s, "WRITE") ELSE End(s, "READ")
                theirs == IF s = "STDIN" THEN "READ" ELSE "WRITE"
            IN /\ d # INVALID_PIPE_VALUE => (d \in FD /\ pfd[d] = mine)
               /\ d = INVALID_PIPE_VALUE => hist.closes[mine] = 1
               /\ d # get(pipes[s], theirs)

\* The caller has written to getPipe(STDIN) in full, closed STDIN and read
\* getPipe(STDOUT) to end-of-file; STDOUT and STDERR are still open.
C11_Witness ==
    /\ Alive
    /\ StdOpen
    /\ hist.execed
    /\ hist.wrote = "ok"
    /\ hist.S # <<>>
    /\ rd["STDOUT"].done
    /\ rd["STDOUT"].text # <<>>
    /\ getPipe(pipes, "STDIN") = INVALID_PIPE_VALUE
    /\ getPipe(pipes, "STDOUT") # INVALID_PIPE_VALUE
    /\ getPipe(pipes, "STDERR") # INVALID_PIPE_VALUE

\* C12: the wait() that takes the status of a child killed by a signal
\* returns no exit code: it raises an error whose message is the
\* description of the terminating signal.
C12_SignalRaisesError ==
    \A i \in DOMAIN waitLog :
        (waitLog[i].sys = "reaped" /\ hist.term = "signaled") =>
            /\ waitLog[i].thrown # <<>>
            /\ waitLog[i].thrown = <<strsignal(WTERMSIG(cstatus))>>
            /\ WTERMSIG(cstatus) = SIGPIPE => waitLog[i].thrown = <<"Broken pipe">>

\* A wait() that slept until the echo child was killed by SIGPIPE, and
\* raised the error.
C12_Witness ==
    \E i \in DOMAIN waitLog :
        /\ StdOpen
        /\ hist.execed
        /\ waitLog[i].sys = "reaped"
        /\ waitLog[i].slept
        /\ hist.term = "signaled"
        /\ thrown = <<"Broken pipe">>

\* C13: an interrupted pipe read is retried -- no pipe::readAll call, neither
\* the caller's nor the drain of the error channel inside the constructor,
\* ends with the EINTR error, so EINTR is never the exception that leaves a
\* call of the parent.
C13_ReadRetriesEintr ==
    /\ thrown # <<getErrnoError("EINTR")>>
    /\ ppc = "failed" => thrown \in {error, <<getErrnoError("EAGAIN")>>,
                                     <<getErrnoError("EMFILE")>>}

\* C14: wait() returns only after the child has terminated; a waitpid that
\* fails with EINTR is called again and EINTR never leaves wait(); a waitpid
\* that fails otherwise (ECHILD) makes wait() raise that error and leaves the
\* pid in the handle, so that the next wait() calls waitpid again.
C14_WaitRetriesEintr ==
    /\ hist.swallowed # <<getErrnoError("EINTR")>>
    /\ \A i \in DOMAIN waitLog :
         LET r == waitLog[i]
         IN /\ r.thrown # <<getErrnoError("EINTR")>>
            /\ r.sys # "none" => cpc = "reaped"
            /\ r.eintr > 0 => (r.slept /\ r.sys \in {"reaped", "failed"})
            /\ r.sys = "failed" =>
                   /\ r.thrown = <<getErrnoError("ECHILD")>>
                   /\ child = ChildPid
                   /\ (i + 1) \in DOMAIN waitLog => waitLog[i + 1].sys = "failed"

\* A wait() slept, was interrupted once and called waitpid again; the child
\* exited and the SIGCHLD handler reaped it, so waitpid failed with ECHILD
\* and wait() raised it; the next wait() called waitpid again.
C14_Witness ==
    /\ Len(waitLog) = 2
    /\ waitLog[1].eintr = 1
    /\ waitLog[1].sys = "failed"
    /\ waitLog[2].sys = "failed"
    /\ hist.execed
    /\ child = ChildPid

\* C15: when fork has failed, construction has failed with the OS error, no
\* child exists, and no pipe of the launch attempt is open in the parent.
C15_ForkFailureClean ==
    hist.forkFailed =>
        /\ ppc = "failed"
        /\ thrown = <<getErrnoError("EAGAIN")>>
        /\ cpc = "none"
        /\ pid = INVALID_PROCESS_HANDLE_VALUE
        /\ \A f \in FD : pfd[f] \notin PipeEnds

\* C16: the error channel exists from before the fork, and once construction
\* has returned, with a Process or with an error, the parent has neither
\* end of it open.
C16_ErrorChannelScoped ==
    /\ cpc # "none" => (get(errorPipe, "READ") # INVALID_PIPE_VALUE
                         /\ get(errorPipe, "WRITE") # INVALID_PIPE_VALUE)
    /\ (ppc = "failed" \/ Constructed) =>
           (~Holds(pfd, End("error", "READ")) /\ ~Holds(pfd, End("error", "WRITE")))

\* C17: cancellation by token -- no execution of the callback starts once
\* the TimerToken has been destroyed, and while the token is alive a
\* runEvery callback that has run is armed again whenever its handler is
\* not running.
C17_TokenCancels ==
    /\ ~lateStart
    /\ (job.repeat /\ token = "alive" /\ timesExecuted > 0 /\ tpc = "run") =>
           timer.armed

\* The ends of the three standard pipes.
StdPipeEnds == {End(p, side) : p \in StdStream, side \in PipeSide}

\* C18: the child never leaves launchProcess by an exception: after fork it
\* ends in the exec'd program or in _exit, whichever step fails.
C18_ChildNeverReturns ==
    cpc # "c_escaped"

\* C19: when the child has called exec (the parent having been started with
\* 0, 1, 2 open), none of its descriptors is open on a parent-side end of a
\* standard pipe, and the only descriptors open on the standard pipes are
\* 0, 1 and 2.
C19_NoStdPipeLeakIntoExec ==
    (StdOpen /\ hist.execed /\ cpc = "e_main") =>
        \A f \in FD :
            /\ \A s \in StdStream : cfd[f] # End(s, ParentSide(s))
            /\ cfd[f] \in StdPipeEnds => f \in 0 .. 2

\* C20: once the three replaceStdStream calls have succeeded, and on into
\* the exec'd program, descriptor 0 is the read end of the STDIN pipe,
\* descriptor 1 the write end of the STDOUT pipe and descriptor 2 the write
\* end of the STDERR pipe, whatever numbers the pipes were created with.
C20_StdDescriptorsRebound ==
    cpc \in {"c_exec", "e_main", "e_read", "e_STDOUT", "e_STDERR", "e_exit"} =>
        /\ cfd[0] = End("STDIN", "READ")
        /\ cfd[1] = End("STDOUT", "WRITE")
        /\ cfd[2] = End("STDERR", "WRITE")

\* The child is about to exec in a process started with 0, 1 and 2 closed:
\* the error channel was created as 0 and 1 and the read end of the STDIN
\* pipe as 2, which the dup2 calls for STDOUT and STDERR have overwritten.
C20_Witness ==
    /\ cpc = "c_exec"
    /\ get(errorPipe, "WRITE") = 1
    /\ get(childPipes["STDIN"], "READ") = 2
    /\ cfd[2] = End("STDERR", "WRITE")

\* The side of a stream's pipe the child keeps.
ChildSide(stream) == IF stream = "STDIN" THEN "READ" ELSE "WRITE"

\* The exec'd program runs: it has not terminated.
Running == cpc \in {"e_main", "e_read", "e_STDOUT", "e_STDERR", "e_exit"}

\* C21: single ownership -- once construction has returned a Process and
\* the child has reached exec, no end of a standard pipe is open in the
\* process of the other side; and as long as the program runs and the
\* parent has closed nothing since, each parent-side end (write of STDIN,
\* read of STDOUT and STDERR) is open in the parent and each child-side end
\* (read of STDIN, write of STDOUT and STDERR) is open in the child.
C21_SingleOwnership ==
    (Constructed /\ hist.execed) =>
        \A s \in StdStream :
            /\ ~Holds(pfd, End(s, ChildSide(s)))
            /\ ~Holds(cfd, End(s, ParentSide(s)))
            /\ Running => Holds(cfd, End(s, ChildSide(s)))
            /\ (Alive /\ hist.closes[End(s, ParentSide(s))] = 0) =>
                   Holds(pfd, End(s, ParentSide(s)))

\* Construction has returned, the exec'd program has begun, and the parent
\* has closed none of its ends; the parent was started with descriptor 0
\* closed, so the pipes did not get the usual numbers.
C21_Witness ==
    /\ ppc = "live"
    /\ hist.execed
    /\ cpc = "e_main"
    /\ get(errorPipe, "READ") = 0
    /\ \A s \in StdStream : hist.closes[End(s, ParentSide(s))] = 0
    /\ \A s \in StdStream : Holds(pfd, End(s, ParentSide(s)))
                             /\ Holds(cfd, End(s, ChildSide(s)))

\* C22: after construction has returned a Process and closePipe(STDIN) has
\* closed the parent's end, no descriptor of the parent or of the running
\* program is open on the write end of the STDIN pipe, and the program
\* eventually gets past its read of descriptor 0: it observes end-of-file.
C22_StdinEofReachesChild ==
    /\ []((Constructed /\ getPipe(pipes, "STDIN") = INVALID_PIPE_VALUE /\ Running)
             => ~HasWriter("STDIN"))
    /\ (Constructed /\ getPipe(pipes, "STDIN") = INVALID_PIPE_VALUE /\ Running)
           ~> (cpc \notin {"e_main", "e_read"})

\* The caller wrote to STDIN and closed it; the program has read the bytes
\* and then end-of-file, and is about to write what it read.
C22_Witness ==
    /\ ppc = "live"
    /\ getPipe(pipes, "STDIN") = INVALID_PIPE_VALUE
    /\ hist.wrote = "ok"
    /\ cpc = "e_STDOUT"
    /\ echo.out # <<>>
    /\ buf["STDIN"] = <<>>

\* The child has exec'd or has terminated.
ExecedOrTerminated == Running \/ cpc \in {"zombie", "reaped"}

\* C23: construction terminates -- while the parent drains the error
\* channel it holds no descriptor on the channel's write end; once the
\* child has exec'd or has terminated nobody holds one, so the read cannot
\* sleep any longer; and a launch that has forked always returns, with a
\* Process or with an error.
C23_ConstructionTerminates ==
    /\ [](ppc = "l_readAll" => ~Holds(pfd, End("error", "WRITE")))
    /\ []((ppc = "l_readAll" /\ ExecedOrTerminated) => ~HasWriter("error"))
    /\ (ppc \in {"l_closeErrorWrite", "l_readAll"}) ~> (ppc = "failed" \/ Constructed)

\* Construction has returned with the error the child reported before it
\* terminated; the parent had started with descriptor 0 closed.
C23_Witness ==
    /\ ppc = "failed"
    /\ thrown = <<getErrnoError("ENOENT")>>
    /\ cpc = "zombie"
    /\ get(errorPipe, "READ") = 0

\* C24: for a path p and an argument list a of length n the argument vector
\* has exactly n + 2 entries: entry 0 points to a copy of p, entries 1..n to
\* copies of a[0..n-1] in order, the last entry is the null pointer; and
\* what execvp later finds there is still p followed by a.
C24_ArgvLayout ==
    apc # "init" =>
        LET n == Len(pa.arguments)
            entry(i) == pa.argvContainer[pa.argv[i]]
        IN /\ Len(pa.argv) = n + 2
           /\ pa.argv[n + 2] = nullptr
           /\ \A i \in 1 .. n + 1 : pa.argv[i] # nullptr
           /\ entry(1) = pa.path
           /\ \A i \in 1 .. n : entry(i + 1) = pa.arguments[i]
           /\ apc = "execed" => seen.argv = <<pa.path>> \o pa.arguments

\* C25: the echo helper run with -1 -2 -e K sets out to write to stdout
\* and to stderr exactly the bytes it read from stdin up to end-of-file,
\* white space included and in the original order, and when it exits it
\* exits with code K.
C25_EchoCopiesStdin ==
    /\ cpc \in {"e_STDOUT", "e_STDERR", "e_exit"} => echo.input = echo.raw
    /\ (hist.execed /\ hist.term = "exited") => exitArg = stoi(args.arguments[4])

\* C26: frame of the facade -- once constructed, the Process has exactly
\* the three pipes STDIN, STDOUT, STDERR, and a step changes its record of
\* them only by storing the sentinel for the parent's side of one stream;
\* wait() changes neither that record nor any descriptor of the parent;
\* closePipe(s) changes no descriptor but the parent's end of s, nothing of
\* the record but that end, and not the child handle.
C26_FacadeFrame ==
    /\ [](Constructed => DOMAIN pipes = StdStream)
    /\ [][(Constructed /\ pipes' # pipes) =>
              \E s \in StdStream :
                  pipes' = [pipes EXCEPT ![s] =
                                set(@, ParentSide(s), INVALID_PIPE_VALUE)]]_vars
    /\ [][(WaitCall \/ WaitReturn) => (pipes' = pipes /\ pfd' = pfd)]_vars
    /\ [][\A s \in StdStream : ClosePipe(s) =>
              /\ \A f \in FD : pfd'[f] # pfd[f] => f = get(pipes[s], ParentSide(s))
              /\ \A t \in StdStream \ {s} : pipes'[t] = pipes[t]
              /\ get(pipes'[s], ChildSide(s)) = get(pipes[s], ChildSide(s))
              /\ child' = child]_vars

\* closePipe(STDIN) and a wait() that reaped the child have acted; the
\* parent still has its ends of STDOUT and STDERR.
C26_Witness ==
    /\ ppc = "live"
    /\ StdOpen
    /\ getPipe(pipes, "STDIN") = INVALID_PIPE_VALUE
    /\ Len(waitLog) = 1
    /\ waitLog[1].sys = "reaped"
    /\ \A s \in {"STDOUT", "STDERR"} :
           /\ getPipe(pipes, s) # INVALID_PIPE_VALUE
           /\ Holds(pfd, End(s, "READ"))

\* C27: when construction has failed after openPipes had created a pipe --
\* a later pipe could not be created, or the child reported a launch error
\* -- the parent has no descriptor open on an end of a standard pipe.
C27_FailureClosesStdPipes ==
    (ppc = "failed" /\ DOMAIN pipes # {} /\ ~hist.forkFailed) =>
        \A f \in FD : pfd[f] \notin StdPipeEnds

\* C28: when construction has failed with the error the child reported,
\* the parent has reaped the child: no terminated child is left unwaited.
C28_FailedChildReaped ==
    (ppc = "failed" /\ error # <<>> /\ thrown = error) =>
        /\ cpc = "reaped"
        /\ hist.reaps = 1

\* C29: while the destructor waits for the child the parent holds none of
\* its ends of the three standard pipes, and the destructor of a Process
\* whose child is the exec'd program -- which ends at end-of-file on stdin
\* or at a broken output pipe -- always returns, whatever the caller did
\* or did not do before.
C29_DestructorTerminates ==
    /\ [](ppc = "d_wait" => \A s \in StdStream : ~Holds(pfd, End(s, ParentSide(s))))
    /\ (ppc = "d_wait" /\ hist.execed) ~> (ppc = "destroyed")

\* A Process destroyed by a caller that wrote to STDIN, then neither closed
\* a pipe nor read one nor waited: the program got end-of-file from the
\* destructor and was killed by the broken pipe of its stdout.
C29_Witness ==
    /\ ppc = "destroyed"
    /\ StdOpen
    /\ hist.execed
    /\ hist.wrote = "ok"
    /\ hist.S # <<>>
    /\ waitLog = <<>>
    /\ ~rd["STDOUT"].done
    /\ ~rd["STDERR"].done
    /\ \A s \in StdStream : getPipe(pipes, s) # INVALID_PIPE_VALUE
    /\ hist.term = "signaled"
    /\ cpc = "reaped"

\* C30: in the child, from the fork until exec has succeeded or the error
\* message has been written, the descriptor recorded as the write end of
\* the error channel is open on that write end, whatever numbers the pipes
\* were created with.
C30_ErrorWriteEndKept ==
    cpc \in {"c_closeErrorRead", "c_replaceSTDIN", "c_replaceSTDOUT",
             "c_replaceSTDERR", "c_exec", "c_catch"} =>
        /\ get(errorPipe, "WRITE") \in FD
        /\ cfd[get(errorPipe, "WRITE")] = End("error", "WRITE")

====
